---- MODULE Spec2Model ----
(***************************************************************************)
(* Order-lifecycle state machine and risk gate of trade_bot                *)
(* (broker.py, state.py, risk.py, main.py).                                *)
(*                                                                         *)
(* The local ledger (BotState, RiskManager) and the trading venue are      *)
(* modelled side by side.  Every Broker method is one atomic step; the     *)
(* answers of the venue to the gateway calls made by the step (success,    *)
(* transport failure, response lost after the venue acted) are inputs of   *)
(* the step.  Between steps the venue fills, rejects or cancels orders.    *)
(***************************************************************************)
EXTENDS Integers, Sequences, FiniteSets, TLC

(* ------------------------------- bounds -------------------------------- *)
NumFigis == 1       \* instruments of the universe
NumPortfolioFigis == 2 \* instruments of the universe in the portfolio runs
NumLedgerFigis == 2 \* instruments of the ledgers handed to the risk manager
MaxOrders == 2      \* orders the venue accepts in one run
MaxUids == 2        \* idempotency keys minted in one run
MaxQty == 2         \* quantity_lots of a BUY
MaxClock == 3       \* last tick the clock reaches

(* ------------------------- configuration values ------------------------ *)
None == -1                  \* Python's None in an Optional field
retry_tries == 2            \* cfg retry_tries
retry_sleep_min == 1        \* cfg retry_sleep_min
retry_sleep_max == 2        \* cfg retry_sleep_max
lot == 1                    \* InstrumentInfo.lot
min_price_increment == 2    \* InstrumentInfo.min_price_increment
max_day_loss_rub == 2       \* cfg max_day_loss_rub
DefaultMaxTrades == 2       \* cfg max_trades_per_day
TightMaxTrades == 1         \* cfg max_trades_per_day in the runs that count entries
DefaultMaxPositions == 2    \* cfg max_positions
PortfolioMaxPositions == 1  \* cfg max_positions in the portfolio runs
max_active_orders_per_figi == 1
max_pending_buys_total == 1
max_active_orders_total == 2
max_consecutive_errors == 2     \* cfg runtime max_consecutive_errors
DayLen == 4                 \* clock ticks of one day
start_trade == 1            \* schedule start_trade, as a tick of the day
stop_new_entries == 1       \* schedule stop_new_entries
flatten_time == 3           \* schedule flatten_time

Figis == 1..NumFigis
LimitPrices == {2, 3}       \* limit prices handed to the submit methods
CashValues == {0, 3}     \* cash balances the positions query reports
DayMetrics == {-3, -2, -1}
StartTicks == {1, 3}        \* ticks of the day at which the calls are made

VARIABLES
    figi,           \* BotState.figi: instrument -> FigiState (tracked ones)
    trades_today,   \* BotState.trades_today
    current_day,    \* BotState.current_day
    last_cash_rub,  \* Broker.last_cash_rub
    locked,         \* RiskManager._locked
    day_metric,     \* RiskManager._day_metric
    uid_counter,    \* number of idempotency keys minted so far
    orders,         \* venue: the orders it accepted, by order id (index)
    positions,      \* venue: lots held per instrument
    clock,          \* wall clock, in ticks
    key_calls,      \* history: key -> submit calls that reached the venue with it
    fill_counted,   \* history: order id -> times its fill raised trades_today
    last,           \* history: the last Broker/RiskManager call and what it did
    pc,             \* main loop: the statement it stands at, and the instrument
    cycle_fills,    \* history: the filled BUY orders the ledger tracked when the cycle began
    expired_figis,  \* history: the instruments whose expire step reported expired in this cycle
    consecutive_errors, \* main: consecutive_errors
    failed_in_a_row, \* history: iterations that raised since the last one that completed
    tradeable_figis, \* main: figis, the instruments picked at start-up
    max_positions,  \* RiskManager.max_positions
    max_trades_per_day \* RiskManager.max_trades_per_day

vars == <<figi, trades_today, current_day, last_cash_rub, locked, day_metric,
          uid_counter, orders, positions, clock, key_calls, fill_counted, last,
          pc, cycle_fills, expired_figis, consecutive_errors, failed_in_a_row,
          tradeable_figis, max_positions, max_trades_per_day>>

loop_vars == <<pc, cycle_fills, expired_figis>>
cfg_vars == <<tradeable_figis, max_positions, max_trades_per_day>>
err_vars == <<consecutive_errors, failed_in_a_row>>

(* ------------------------------ state.py ------------------------------- *)
FigiState ==
    [active_order_id |-> None, client_order_uid |-> None, position_lots |-> 0,
     entry_price |-> None, entry_time |-> None, order_side |-> "None",
     order_placed_ts |-> None, cooldown_until |-> None]

\* BotState.get: the entry of an instrument, created on first reference.
get(W, f) ==
    IF f \in DOMAIN W.figi THEN W ELSE [W EXCEPT !.figi = (f :> FigiState) @@ W.figi]

\* dict.get without creation (has_open_position, risk.py's fs).
peek(fg, f) == IF f \in DOMAIN fg THEN fg[f] ELSE FigiState

has_open_position(fg, f) == peek(fg, f).position_lots > 0

reset_day(W, day_key) == [W EXCEPT !.current_day = day_key, !.trades_today = 0]

(* ------------------------------ the clock ------------------------------ *)
now == clock
_today_key == clock \div DayLen
\* Broker.is_trading_time, new_entries_allowed and flatten_due at ts = now().
is_trading_time == start_trade <= (clock % DayLen) /\ (clock % DayLen) <= flatten_time
new_entries_allowed == (clock % DayLen) <= stop_new_entries
flatten_due == (clock % DayLen) >= flatten_time

\* The rollover without its test of the day key.
_ensure_day_rollover_always(W) == reset_day(W, _today_key)
\* Broker._ensure_day_rollover.
_ensure_day_rollover(W) ==
    IF W.current_day # _today_key THEN reset_day(W, _today_key) ELSE W

(* ------------------------------- the venue ----------------------------- *)
ActiveStatuses == {"NEW", "PARTIALLYFILL"}
IsActive(o) == o.status \in ActiveStatuses

\* Order ids of the venue's active orders of instrument f, oldest first.
ActiveIds(ords, f) == {i \in 1..Len(ords) : ords[i].figi = f /\ IsActive(ords[i])}

Min(S) == CHOOSE x \in S : \A y \in S : x <= y

(* ------------------------- the retry wrapper --------------------------- *)
\* What the venue answers to the attempts of one gateway call, were they all
\* made: "ok", "err" (failed, the venue did nothing) or "lost" (the venue
\* acted, the response failed).
\* Attempts after a successful one are never made: their answers are left "ok".
Settled(script) ==
    \A i, j \in 1..retry_tries : (i < j /\ script[i] = "ok") => script[j] = "ok"
Scripts == {s \in [1..retry_tries -> {"ok", "err", "lost"}] : Settled(s)}
QueryScripts == {s \in [1..retry_tries -> {"ok", "err"}] : Settled(s)}

\* Broker._call, lines 233-241, from the attempt numbered attempt on: the
\* call returns the first answer that is no RequestError, raises when the
\* attempt numbered tries fails, and otherwise waits and tries again; when
\* the for loop has no attempt left to make, the method ends without a return.
RECURSIVE _call_from(_, _, _, _, _, _)
_call_from(tries, sleep_max, script, attempt, sleep, waits) ==
    IF attempt > tries
    THEN [outcome |-> "returned None", attempts |-> attempt - 1, waits |-> waits]
    ELSE IF script[attempt] = "ok"
    THEN [outcome |-> "returned", attempts |-> attempt, waits |-> waits]
    ELSE IF attempt = tries
    THEN [outcome |-> "raised", attempts |-> attempt, waits |-> waits]
    ELSE _call_from(tries, sleep_max, script, attempt + 1,
                    Min({sleep_max, sleep * 2}), Append(waits, sleep))

\* Broker._call with the configuration retry_tries = tries, retry_sleep_min
\* and retry_sleep_max.
_call_with(tries, sleep_min, sleep_max, script) ==
    _call_from(tries, sleep_max, script, 1, sleep_min, <<>>)

\* Broker._call: attempts are made until one succeeds or retry_tries are used.
_call(script) ==
    LET run == _call_with(retry_tries, retry_sleep_min, retry_sleep_max, script)
    IN  [ok |-> run.outcome = "returned", attempts |-> run.attempts]

\* The attempts of a call that reached the venue.
Reached(script) == {i \in 1..(_call(script).attempts) : script[i] \in {"ok", "lost"}}

\* The order_id keyword each attempt of _call passes on: the same kwargs.
AttemptKeyFresh(client_uid, attempt) == client_uid + attempt - 1
AttemptKey(client_uid, attempt) == client_uid

\* A gateway call as the step records it; price is the limit price of a
\* submit, answer what the call returned (None when it failed).
Call(kind, oid, keys, side, lots) ==
    [kind |-> kind, order_id |-> oid, keys |-> keys, side |-> side, lots |-> lots,
     price |-> None, answer |-> None, listed |-> {}, figi |-> None]
Query(kind, oid) == Call(kind, oid, <<>>, "", 0)

Journal(event, f, side, status, reason) ==
    [event |-> event, figi |-> f, side |-> side, status |-> status, reason |-> reason]

Log(W, c) == [W EXCEPT !.calls = Append(@, c)]
Write(W, j) == [W EXCEPT !.journal = Append(@, j)]
Return(W, r) == [W EXCEPT !.ret = r]

(* --------------------------- price helpers ----------------------------- *)
_round_to_step_down(price, step) ==
    IF step <= 0 THEN price ELSE (price \div step) * step

_normalize_price(f, price) == _round_to_step_down(price, min_price_increment)

\* Broker.get_cash_rub: the cash of the positions answer, 0.0 when the call fails.
get_cash_rub(W, resp) ==
    LET cash == IF _call(resp.script).ok THEN resp.cash ELSE 0
    IN  [W |-> Log(W, [Query("positions", None) EXCEPT
                            !.answer = IF _call(resp.script).ok THEN cash ELSE None]),
         cash |-> cash]

\* Broker.get_cached_cash_rub: asks the venue only when no cash is cached.
get_cached_cash_rub(W) ==
    IF W.last_cash_rub > 0 THEN W ELSE Log(W, Query("positions", None))

uuid4_reused(W) == [W |-> W, uid |-> IF W.uid_counter = 0 THEN 1 ELSE W.uid_counter]
uuid4(W) == [W |-> [W EXCEPT !.uid_counter = @ + 1], uid |-> W.uid_counter + 1]

(* ------------------------- venue: post an order ------------------------ *)
\* The venue executes a key at most once: a key it has seen names the same order.
KeyOrder(ords, key) == {i \in 1..Len(ords) : ords[i].key = key}

VenuePost(W, f, side, lots, price, keys, script) ==
    LET hit == {keys[i] : i \in Reached(script)}
        RECURSIVE Put(_, _)
        Put(V, ks) ==
            IF ks = {} THEN V
            ELSE LET k == Min(ks)
                     V1 == [V EXCEPT !.key_calls[k] = @ + 1]
                     V2 == IF KeyOrder(V.orders, k) # {} THEN V1
                           ELSE [V1 EXCEPT !.orders = Append(@,
                                    [figi |-> f, side |-> side, lots |-> lots,
                                     exec |-> 0, status |-> "NEW", key |-> k,
                                     price |-> price])]
                 IN  Put(V2, ks \ {k})
    IN  Put(W, hit)

\* The order id the venue answers to a successful attempt.
PostedId(W, key) == Min(KeyOrder(W.orders, key))

\* self._call(self._order_post_call(), ..., order_id=client_uid): the venue's
\* side of the call, and the order id of the response when an attempt succeeds.
PostCall(W, f, side, lots, price, client_uid, script) ==
    LET n == _call(script).attempts
        keys == [i \in 1..n |-> AttemptKey(client_uid, i)]
        V == VenuePost(W, f, side, lots, price, keys, script)
        order_id == IF _call(script).ok THEN PostedId(V, keys[n]) ELSE None
        W1 == Log(V, [Call("post_order", None, keys, side, lots) EXCEPT
                            !.price = price, !.answer = order_id, !.figi = f])
    IN  [W |-> W1, ok |-> _call(script).ok, order_id |-> order_id]

(* ------------------------ Broker.cancel_active_order ------------------- *)
VenueCancel(W, oid, script) ==
    IF Reached(script) # {} /\ IsActive(W.orders[oid])
    THEN [W EXCEPT !.orders[oid].status = "CANCELLED"]
    ELSE W

\* The venue cancels active orders only: for any other order every attempt fails.
CancelScripts(W, oid) ==
    IF IsActive(W.orders[oid]) THEN Scripts ELSE {[i \in 1..retry_tries |-> "err"]}

cancel_active_order_on(W0, f, script) ==
    LET W == get(W0, f)
        fs == W.figi[f]
        oid == fs.active_order_id
        W1 == Log(VenueCancel(W, oid, script),
                  [Call("cancel_order", oid, <<>>, "", 0) EXCEPT
                        !.answer = IF _call(script).ok THEN oid ELSE None, !.figi = f])
    IN  IF _call(script).ok
        THEN [Write(W1, Journal("CANCEL", f, "", "CANCELLED", "cancel_active_order"))
                EXCEPT !.figi[f].active_order_id = None,
                       !.figi[f].client_order_uid = None]
        ELSE W1

cancel_active_order(W0, f) ==
    LET W == get(W0, f)
    IN  IF W.figi[f].active_order_id = None THEN {W}
        ELSE {cancel_active_order_on(W, f, s) : s \in CancelScripts(W, W.figi[f].active_order_id)}

(* -------------------------- Broker.place_limit_buy --------------------- *)
\* What the positions query answers: the attempts' fate and the cash balance.
CashResps ==
    {[script |-> s, cash |-> c] : s \in {q \in QueryScripts : _call(q).ok}, c \in CashValues}
    \cup {[script |-> s, cash |-> 0] : s \in {q \in QueryScripts : ~_call(q).ok}}

\* place_limit_buy without its first check.
buy_over_active_order(W0, f, price, quantity_lots, cash_resp, script) ==
    LET W == get(W0, f)
        fs == W.figi[f]
        price_f == _normalize_price(f, price)
        c == get_cash_rub(W, cash_resp)
        u == uuid4(c.W)
        r == PostCall(u.W, f, "BUY", quantity_lots, price_f, u.uid, script)
    IN  IF fs.position_lots > 0 THEN Return(W, "False")
        ELSE IF r.ok
        THEN Return([r.W EXCEPT !.figi[f].client_order_uid = u.uid,
                                !.figi[f].active_order_id = r.order_id], "True")
        ELSE Return(r.W, "False")

place_limit_buy_on(W0, f, price, quantity_lots, cash_resp, script) ==
    LET W == get(W0, f)
        fs == W.figi[f]
        price_f == _normalize_price(f, price)
        est_cost == price_f * lot * quantity_lots
        c == get_cash_rub(W, cash_resp)
        u == uuid4(c.W)
        r == PostCall(u.W, f, "BUY", quantity_lots, price_f, u.uid, script)
    IN  IF fs.active_order_id # None THEN Return(W, "False")
        ELSE IF fs.position_lots > 0 THEN Return(W, "False")
        ELSE IF c.cash > 0 /\ 100 * c.cash < 101 * est_cost
        THEN Return(Write(c.W, Journal("SKIP", f, "BUY", "NO_CASH",
                                       "insufficient_cash_precheck")), "False")
        ELSE IF r.ok
        THEN Return(Write(get_cached_cash_rub(
                        [r.W EXCEPT !.figi[f].client_order_uid = u.uid,
                                    !.figi[f].active_order_id = r.order_id]),
                        Journal("SUBMIT", f, "BUY", "NEW", "limit_buy")), "True")
        ELSE Return(r.W, "False")

place_limit_buy(W, f, price, quantity_lots) ==
    {place_limit_buy_on(W, f, price, quantity_lots, cr, s) : cr \in CashResps, s \in Scripts}

(* --------------------- Broker.place_limit_sell_to_close ---------------- *)
\* The submission with the key written to the ledger before the venue answers.
sell_post_key_first(W, f, price, script) ==
    LET fs == W.figi[f]
        price_f == _normalize_price(f, price)
        u == uuid4(W)
        r == PostCall([u.W EXCEPT !.figi[f].client_order_uid = u.uid],
                      f, "SELL", fs.position_lots, price_f, u.uid, script)
    IN  IF r.ok
        THEN Return(Write([r.W EXCEPT !.figi[f].active_order_id = r.order_id],
                          Journal("SUBMIT", f, "SELL", "NEW", "limit_sell_to_close")), "True")
        ELSE Return(r.W, "False")

\* The submission of place_limit_sell_to_close, from "price_f = ..." on.
sell_post_on(W, f, price, script) ==
    LET fs == W.figi[f]
        price_f == _normalize_price(f, price)
        u == uuid4(W)
        r == PostCall(u.W, f, "SELL", fs.position_lots, price_f, u.uid, script)
    IN  IF r.ok
        THEN Return(Write(get_cached_cash_rub(
                        [r.W EXCEPT !.figi[f].client_order_uid = u.uid,
                                    !.figi[f].active_order_id = r.order_id]),
                        Journal("SUBMIT", f, "SELL", "NEW", "limit_sell_to_close")), "True")
        ELSE Return(r.W, "False")

sell_without_cancel(W0, f, price) ==
    LET W == get(W0, f)
    IN  IF W.figi[f].position_lots <= 0 THEN {Return(W, "False")}
        ELSE {sell_post_on(W, f, price, s) : s \in Scripts}

place_limit_sell_to_close(W0, f, price) ==
    LET W == get(W0, f)
        fs == W.figi[f]
    IN  IF fs.position_lots <= 0 THEN {Return(W, "False")}
        ELSE UNION {{sell_post_on(W1, f, price, s) : s \in Scripts} :
                    W1 \in (IF fs.active_order_id # None
                            THEN cancel_active_order(W, f) ELSE {W})}

(* -------------------------- Broker.poll_order_updates ------------------ *)
\* get_order_state's answer for order oid, read from the venue's book.
OrderState(W, oid) ==
    LET o == W.orders[oid]
    IN  [execution_report_status |-> o.status,
         lots_requested |-> o.lots,
         lots_executed |-> o.exec,
         direction |-> o.side,
         average_position_price |-> IF o.exec > 0 THEN o.price ELSE 0]

final_statuses_and_partial == {"FILL", "REJECTED", "CANCELLED", "PARTIALLYFILL"}
final_statuses == {"FILL", "REJECTED", "CANCELLED"}

count_every_fill(W, oid, side) ==
    [W EXCEPT !.trades_today = @ + 1, !.fill_counted[oid] = @ + 1]
\* "Count trades on ENTRY fills (BUY) rather than submits."
count_trade(W, oid, side) ==
    IF side = "BUY"
    THEN [W EXCEPT !.trades_today = @ + 1, !.fill_counted[oid] = @ + 1]
    ELSE W

poll_order_updates_on(W0, f, script) ==
    LET W == get(W0, f)
        fs == W.figi[f]
        oid == fs.active_order_id
        st == OrderState(W, oid)
        W1 == Log(W, [Query("get_order_state", oid) EXCEPT
                        !.answer = IF _call(script).ok THEN st.lots_executed ELSE None])
        status == st.execution_report_status
        side == st.direction
        avg_price == st.average_position_price
        W2 == IF st.lots_executed > 0 /\ st.lots_requested > 0
                 /\ st.lots_executed < st.lots_requested
              THEN Write(W1, Journal("PARTIAL_FILL", f, side, status, "partial_fill"))
              ELSE W1
        W3 == IF status = "FILL"
              THEN LET Wj == count_trade(
                                Write(W2, Journal("FILL", f, side, status, "filled")),
                                oid, side)
                   IN  IF side = "BUY"
                       THEN [Wj EXCEPT
                               !.figi[f].entry_time =
                                   IF @ = None THEN now ELSE @,
                               !.figi[f].entry_price =
                                   IF @ = None /\ avg_price # None THEN avg_price ELSE @]
                       ELSE IF side = "SELL"
                       THEN [Wj EXCEPT !.figi[f].entry_price = None,
                                       !.figi[f].entry_time = None]
                       ELSE Wj
              ELSE IF status = "CANCELLED"
              THEN Write(W2, Journal("CANCEL", f, side, status, "cancelled_by_api"))
              ELSE IF status = "REJECTED"
              THEN Write(W2, Journal("REJECT", f, side, status, "rejected"))
              ELSE W2
    IN  IF ~_call(script).ok THEN W1
        ELSE IF status \in final_statuses
        THEN [W3 EXCEPT !.figi[f].active_order_id = None,
                        !.figi[f].client_order_uid = None]
        ELSE W2

poll_order_updates(W0, f) ==
    LET W == get(W0, f)
    IN  IF W.figi[f].active_order_id = None THEN {W}
        ELSE {poll_order_updates_on(W, f, s) : s \in QueryScripts}

(* ---------------------- Broker.refresh_account_snapshot ---------------- *)
MarketPrices == {3}      \* prices get_last_prices reports

\* Broker.get_last_price: the price, or None when the call fails.
PriceAnswers == MarketPrices \cup {None}

\* The positions query: cash, and the lots of the securities the answer
\* lists, as the venue holds them.
PositionsResp(W, resp) ==
    [ok |-> _call(resp.script).ok, money |-> resp.cash,
     securities |-> [f \in resp.listed |-> W.positions[f]]]

\* Lines 128-132 (and 495-502 of sync_state): 0 lots for an instrument the
\* answer does not list.
by_figi_lots(pos, figis) ==
    [f \in figis |-> IF f \in DOMAIN pos.securities THEN pos.securities[f] ELSE 0]

\* The instruments for which the orders answer holds an order.
orders_listed(W, figis) == {f \in figis : ActiveIds(W.orders, f) # {}}

\* The orders query: the venue's active orders, as f -> first order id or None.
active_by_figi(W, f) ==
    IF ActiveIds(W.orders, f) = {} THEN None ELSE Min(ActiveIds(W.orders, f))

\* Lines 134-149 (and 515-526 of sync_state): one instrument's position and
\* entry bookkeeping from the lots the venue reports.
entry_bookkeeping(W0, f, lots, price) ==
    LET W == get(W0, f)
        prev_lots == W.figi[f].position_lots
        W1 == [W EXCEPT !.figi[f].position_lots = lots]
    IN  IF prev_lots > 0 /\ lots = 0
        THEN [W1 EXCEPT !.figi[f].entry_price = None, !.figi[f].entry_time = None]
        ELSE IF prev_lots = 0 /\ lots > 0
        THEN LET W2 == [W1 EXCEPT !.figi[f].entry_time = IF @ = None THEN now ELSE @]
             IN  IF W2.figi[f].entry_price = None
                 THEN [Log(W2, Query("get_last_prices", None))
                         EXCEPT !.figi[f].entry_price = price[f]]
                 ELSE W2
        ELSE W1

\* Lines 162-164: fs.active_order_id = active_by_figi.get(f) or None
set_order_id(W0, f, oid) ==
    [get(W0, f) EXCEPT !.figi[f].active_order_id = oid]

RECURSIVE book_all(_, _, _, _)
\* Lines 134-149: "for f in figi_set", in ascending order of f.
book_all(W, S, lots, price) ==
    IF S = {} THEN W
    ELSE LET f == Min(S)
         IN  book_all(entry_bookkeeping(W, f, lots[f], price), S \ {f}, lots, price)

RECURSIVE orders_all(_, _, _)
\* Lines 162-164: "for f in figi_set", against the orders answer held in V.
orders_all(W, S, V) ==
    IF S = {} THEN W
    ELSE LET f == Min(S)
         IN  orders_all(set_order_id(W, f, active_by_figi(V, f)), S \ {f}, V)

\* refresh_account_snapshot reading a failed positions query as an empty answer.
refresh_failed_as_empty(W0, figis, pos_resp, ord_script, price) ==
    LET Wd == _ensure_day_rollover(W0)
        pos == PositionsResp(Wd, pos_resp)
        Wp == Log(Wd, [Query("positions", None) EXCEPT
                            !.answer = IF pos.ok THEN pos.money ELSE None,
                            !.listed = IF pos.ok THEN DOMAIN pos.securities ELSE {}])
        W1 == IF pos.ok
              THEN book_all([Wp EXCEPT !.last_cash_rub = pos.money],
                            figis, by_figi_lots(pos, figis), price)
              ELSE book_all(Wp, figis, [f \in figis |-> 0], price)
        ord_ok == _call(ord_script).ok
        Wo == Log(W1, [Query("orders", None) EXCEPT
                            !.answer = IF ord_ok
                                       THEN Cardinality(orders_listed(W1, figis))
                                       ELSE None,
                            !.listed = IF ord_ok THEN orders_listed(W1, figis) ELSE {}])
    IN  IF ord_ok THEN orders_all(Wo, figis, Wo) ELSE Wo

refresh_account_snapshot_on(W0, figis, pos_resp, ord_script, price) ==
    LET Wd == _ensure_day_rollover(W0)
        pos == PositionsResp(Wd, pos_resp)
        Wp == Log(Wd, [Query("positions", None) EXCEPT
                            !.answer = IF pos.ok THEN pos.money ELSE None,
                            !.listed = IF pos.ok THEN DOMAIN pos.securities ELSE {}])
        W1 == IF pos.ok
              THEN book_all([Wp EXCEPT !.last_cash_rub = pos.money],
                            figis, by_figi_lots(pos, figis), price)
              ELSE Wp
        ord_ok == _call(ord_script).ok
        Wo == Log(W1, [Query("orders", None) EXCEPT
                            !.answer = IF ord_ok
                                       THEN Cardinality(orders_listed(W1, figis))
                                       ELSE None,
                            !.listed = IF ord_ok THEN orders_listed(W1, figis) ELSE {}])
    IN  IF ord_ok THEN orders_all(Wo, figis, Wo) ELSE Wo

\* What the positions query of a snapshot answers: the attempts' fate, the
\* cash, and the held securities it lists (an answer may leave some out).
SnapshotResps(W) ==
    {[script |-> r.script, cash |-> r.cash, listed |-> L] :
        r \in {q \in CashResps : _call(q.script).ok},
        L \in SUBSET {f \in DOMAIN W.positions : W.positions[f] > 0}}
    \cup {[script |-> r.script, cash |-> r.cash, listed |-> {}] :
            r \in {q \in CashResps : ~_call(q.script).ok}}

refresh_account_snapshot(W, figis) ==
    {refresh_account_snapshot_on(W, figis, pr, os, lp) :
        pr \in SnapshotResps(W), os \in QueryScripts,
        lp \in [DOMAIN W.positions -> PriceAnswers]}

(* ----------------------------- Broker.sync_state ----------------------- *)
sync_state_on(W0, f, pos_resp, ord_script, price) ==
    LET Wd == get(_ensure_day_rollover(W0), f)
        prev_lots == Wd.figi[f].position_lots
        pos == PositionsResp(Wd, pos_resp)
        Wp == Log(Wd, Query("positions", None))
        lots == IF pos.ok THEN by_figi_lots(pos, {f})[f] ELSE prev_lots
        Wo == Log(Wp, Query("orders", None))
        W1 == IF _call(ord_script).ok
              THEN set_order_id(Wo, f, active_by_figi(Wo, f)) ELSE Wo
    IN  entry_bookkeeping(W1, f, lots, price)

sync_state(W, f) ==
    {sync_state_on(W, f, pr, os, lp) :
        pr \in SnapshotResps(W), os \in QueryScripts,
        lp \in [DOMAIN W.positions -> PriceAnswers]}

(* -------------------------- Broker.flatten_if_needed ------------------- *)
\* One instrument of the loop "for figi in list(self.state.figi.keys())".
flatten_one(W0, f) ==
    LET W == get(W0, f)
        Ws == IF W.figi[f].active_order_id # None THEN cancel_active_order(W, f) ELSE {W}
        last_price(V, p) == Log(V, [Query("get_last_prices", None) EXCEPT
                                        !.answer = p, !.figi = f])
    IN  UNION {IF W1.figi[f].position_lots > 0
               THEN {last_price(W1, None)}
                    \cup UNION {place_limit_sell_to_close(last_price(W1, p), f, p) :
                                p \in MarketPrices}
               ELSE {W1} : W1 \in Ws}

RECURSIVE flatten_from(_, _)
flatten_from(Ws, S) ==
    IF S = {} THEN Ws
    ELSE LET f == Min(S)
         IN  flatten_from(UNION {flatten_one(W, f) : W \in Ws}, S \ {f})

flatten_if_needed(W) ==
    IF ~flatten_due THEN {W} ELSE flatten_from({W}, DOMAIN W.figi)

(* ------------------------------- risk.py ------------------------------- *)
update_day_pnl_relock(lk, day_metric_rub) == day_metric_rub <= -max_day_loss_rub
update_day_pnl_exclusive(lk, day_metric_rub) ==
    IF day_metric_rub < -max_day_loss_rub THEN TRUE ELSE lk
\* RiskManager.update_day_pnl: the lock after the call.
update_day_pnl(lk, day_metric_rub) ==
    IF day_metric_rub <= -max_day_loss_rub THEN TRUE ELSE lk

_count_open_positions(fg) == Cardinality({f \in DOMAIN fg : fg[f].position_lots > 0})

_count_active_orders(fg) == Cardinality({f \in DOMAIN fg : fg[f].active_order_id # None})

_count_pending_buys(fg) ==
    Cardinality({f \in DOMAIN fg :
                    fg[f].active_order_id # None /\ ~(fg[f].position_lots > 0)})

allow_new_trade_strict(lk, fg, trades, f) ==
    IF lk THEN FALSE
    ELSE IF trades > max_trades_per_day THEN FALSE
    ELSE IF has_open_position(fg, f) THEN FALSE
    ELSE IF peek(fg, f).active_order_id # None /\ max_active_orders_per_figi <= 1 THEN FALSE
    ELSE IF _count_open_positions(fg) + _count_pending_buys(fg) > max_positions THEN FALSE
    ELSE IF _count_pending_buys(fg) > max_pending_buys_total THEN FALSE
    ELSE IF _count_active_orders(fg) > max_active_orders_total THEN FALSE
    ELSE TRUE
\* RiskManager.allow_new_trade, with lk the lock and trades state.trades_today.
allow_new_trade(lk, fg, trades, f) ==
    IF lk THEN FALSE
    ELSE IF trades >= max_trades_per_day THEN FALSE
    ELSE IF has_open_position(fg, f) THEN FALSE
    ELSE IF peek(fg, f).active_order_id # None /\ max_active_orders_per_figi <= 1 THEN FALSE
    ELSE IF _count_open_positions(fg) + _count_pending_buys(fg) >= max_positions THEN FALSE
    ELSE IF _count_pending_buys(fg) >= max_pending_buys_total THEN FALSE
    ELSE IF _count_active_orders(fg) >= max_active_orders_total THEN FALSE
    ELSE TRUE

(* ------------------------------ the steps ------------------------------ *)
\* The ledger and the venue as one value the methods transform; calls and
\* journal collect the gateway calls and journal records of the running step.
World ==
    [figi |-> figi, trades_today |-> trades_today, current_day |-> current_day,
     last_cash_rub |-> last_cash_rub, uid_counter |-> uid_counter,
     orders |-> orders, positions |-> positions, key_calls |-> key_calls,
     fill_counted |-> fill_counted, calls |-> <<>>, journal |-> <<>>, ret |-> "None"]

NoCall ==
    [op |-> "", figi |-> None, ret |-> "None", calls |-> <<>>, journal |-> <<>>,
     pre |-> FigiState, pre_figi |-> <<>>, pre_trades |-> 0, pre_locked |-> FALSE]

Commit(op, f, W) ==
    /\ figi' = W.figi
    /\ trades_today' = W.trades_today
    /\ current_day' = W.current_day
    /\ last_cash_rub' = W.last_cash_rub
    /\ uid_counter' = W.uid_counter
    /\ orders' = W.orders
    /\ positions' = W.positions
    /\ key_calls' = W.key_calls
    /\ fill_counted' = W.fill_counted
    /\ last' = [op |-> op, figi |-> f, ret |-> W.ret, calls |-> W.calls,
                journal |-> W.journal, pre |-> peek(figi, f), pre_figi |-> figi,
                pre_trades |-> trades_today, pre_locked |-> locked]
    /\ UNCHANGED <<locked, day_metric, clock>>
    /\ UNCHANGED cfg_vars

\* The state after start-up with the universe U, the limits mp and mt of the
\* risk manager, and held lots of every instrument on the account.
StartWith(U, mp, mt, held) ==
    /\ tradeable_figis = U
    /\ max_positions = mp
    /\ max_trades_per_day = mt
    /\ figi = <<>>
    /\ trades_today = 0
    /\ current_day = None
    /\ last_cash_rub = 0
    /\ locked = FALSE
    /\ day_metric = 0
    /\ uid_counter = 0
    /\ orders = <<>>
    /\ positions = [f \in U |-> held]
    /\ clock \in StartTicks
    /\ key_calls = [k \in 1..(MaxUids + retry_tries) |-> 0]
    /\ fill_counted = [i \in 1..MaxOrders |-> 0]
    /\ last = NoCall
    /\ pc = [at |-> "top", f |-> None]
    /\ cycle_fills = {}
    /\ expired_figis = {}
    /\ consecutive_errors = 0
    /\ failed_in_a_row = 0

\* Start-up on an empty account with the default limit of trades.
Start(U, mp) == StartWith(U, mp, DefaultMaxTrades, 0)

Init == Start(Figis, DefaultMaxPositions)

\* No call is running: the record of the last one has been dropped.
Idle == last.op = ""

\* A submit method may run while the bounds leave room for one more key and order.
CanSubmit == Idle /\ uid_counter < MaxUids /\ Len(orders) < MaxOrders

\* Room, within the bounds, for the keys and orders of one flatten: one SELL
\* for each instrument with a position.
FlattenRoom ==
    LET n == Cardinality({f \in DOMAIN figi : figi[f].position_lots > 0})
    IN  /\ uid_counter + n <= MaxUids
        /\ Len(orders) + n <= MaxOrders

PlaceLimitBuy(f, price, quantity_lots) ==
    /\ CanSubmit
    /\ \E W \in place_limit_buy(World, f, price, quantity_lots) :
            Commit("place_limit_buy", f, W)
    /\ UNCHANGED loop_vars
    /\ UNCHANGED err_vars

PlaceLimitSellToClose(f, price) ==
    /\ CanSubmit
    /\ \E W \in place_limit_sell_to_close(World, f, price) :
            Commit("place_limit_sell_to_close", f, W)
    /\ UNCHANGED loop_vars
    /\ UNCHANGED err_vars

CancelActiveOrder(f) ==
    /\ Idle
    /\ \E W \in cancel_active_order(World, f) : Commit("cancel_active_order", f, W)
    /\ UNCHANGED loop_vars
    /\ UNCHANGED err_vars

PollOrderUpdates(f) ==
    /\ Idle
    /\ \E W \in poll_order_updates(World, f) : Commit("poll_order_updates", f, W)
    /\ UNCHANGED loop_vars
    /\ UNCHANGED err_vars

RefreshAccountSnapshot ==
    /\ Idle
    /\ \E W \in refresh_account_snapshot(World, tradeable_figis) :
            Commit("refresh_account_snapshot", None, W)
    /\ UNCHANGED loop_vars
    /\ UNCHANGED err_vars

SyncState(f) ==
    /\ Idle
    /\ \E W \in sync_state(World, f) : Commit("sync_state", f, W)
    /\ UNCHANGED loop_vars
    /\ UNCHANGED err_vars

FlattenIfNeeded ==
    /\ Idle
    /\ FlattenRoom
    /\ \E W \in flatten_if_needed(World) : Commit("flatten_if_needed", None, W)
    /\ UNCHANGED loop_vars
    /\ UNCHANGED err_vars

(* --------------------------- the venue's steps ------------------------- *)
\* One more lot of an active order executes.
VenueFill(i) ==
    /\ Idle
    /\ i \in 1..Len(orders)
    /\ IsActive(orders[i])
    /\ orders[i].side = "SELL" => positions[orders[i].figi] > 0
    /\ orders' = [orders EXCEPT ![i].exec = @ + 1,
                                ![i].status = IF orders[i].exec + 1 = orders[i].lots
                                              THEN "FILL" ELSE "PARTIALLYFILL"]
    /\ positions' = [positions EXCEPT ![orders[i].figi] =
                        IF orders[i].side = "BUY" THEN @ + 1 ELSE @ - 1]
    /\ UNCHANGED <<figi, trades_today, current_day, last_cash_rub, locked, day_metric,
                   uid_counter, clock, key_calls, fill_counted, last, pc, cycle_fills, expired_figis>>
    /\ UNCHANGED cfg_vars
    /\ UNCHANGED err_vars

VenueReject(i) ==
    /\ Idle
    /\ i \in 1..Len(orders)
    /\ orders[i].status = "NEW"
    /\ orders' = [orders EXCEPT ![i].status = "REJECTED"]
    /\ UNCHANGED <<figi, trades_today, current_day, last_cash_rub, locked, day_metric,
                   uid_counter, positions, clock, key_calls, fill_counted, last, pc, cycle_fills, expired_figis>>
    /\ UNCHANGED cfg_vars
    /\ UNCHANGED err_vars

\* The exchange cancels an active order itself (what was executed stays executed).
VenueCancels(i) ==
    /\ Idle
    /\ i \in 1..Len(orders)
    /\ IsActive(orders[i])
    /\ orders' = [orders EXCEPT ![i].status = "CANCELLED"]
    /\ UNCHANGED <<figi, trades_today, current_day, last_cash_rub, locked, day_metric,
                   uid_counter, positions, clock, key_calls, fill_counted, last, pc, cycle_fills, expired_figis>>
    /\ UNCHANGED cfg_vars
    /\ UNCHANGED err_vars

\* The call returns: its record is dropped before the next step.
Done ==
    /\ ~Idle
    /\ last' = NoCall
    /\ UNCHANGED <<figi, trades_today, current_day, last_cash_rub, locked, day_metric,
                   uid_counter, orders, positions, clock, key_calls, fill_counted,
                   pc, cycle_fills, expired_figis>>
    /\ UNCHANGED cfg_vars
    /\ UNCHANGED err_vars

Venue ==
    \/ \E i \in 1..MaxOrders : VenueFill(i)
    \/ \E i \in 1..MaxOrders : VenueReject(i)
    \/ \E i \in 1..MaxOrders : VenueCancels(i)

Next ==
    \/ \E f \in tradeable_figis, p \in LimitPrices, q \in 1..MaxQty : PlaceLimitBuy(f, p, q)
    \/ \E f \in tradeable_figis, p \in LimitPrices : PlaceLimitSellToClose(f, p)
    \/ \E f \in tradeable_figis : CancelActiveOrder(f)
    \/ \E f \in tradeable_figis : PollOrderUpdates(f)
    \/ RefreshAccountSnapshot
    \/ \E f \in tradeable_figis : SyncState(f)
    \/ FlattenIfNeeded
    \/ Venue
    \/ Done

Spec == Init /\ [][Next]_vars

(* ------------------------- the risk manager alone ---------------------- *)
\* The ledgers allow_new_trade is handed: every instrument flat or long, with
\* or without an active order.
LedgerStates ==
    [1..NumLedgerFigis -> {[FigiState EXCEPT !.active_order_id = a, !.position_lots = l] :
                    a \in {None, 1}, l \in 0..1}]

UpdateDayPnl(v) ==
    /\ Idle
    /\ day_metric' = v
    /\ locked' = update_day_pnl(locked, v)
    /\ last' = [NoCall EXCEPT !.op = "update_day_pnl", !.pre_locked = locked]
    /\ UNCHANGED <<figi, trades_today, current_day, last_cash_rub, uid_counter,
                   orders, positions, clock, key_calls, fill_counted, pc, cycle_fills, expired_figis>>
    /\ UNCHANGED cfg_vars
    /\ UNCHANGED err_vars

\* allow_new_trade(state, account_id, figi) with state = (fg, trades): the call
\* and its answer are kept in last, the ledger handed in as last.state.
AllowNewTrade(fg, trades, f) ==
    /\ Idle
    /\ last' = [op |-> "allow_new_trade", figi |-> f,
                ret |-> IF allow_new_trade(locked, fg, trades, f) THEN "True" ELSE "False",
                state |-> fg, trades |-> trades, pre_locked |-> locked]
    /\ UNCHANGED <<figi, trades_today, current_day, last_cash_rub, locked, day_metric,
                   uid_counter, orders, positions, clock, key_calls, fill_counted,
                   pc, cycle_fills, expired_figis>>
    /\ UNCHANGED cfg_vars
    /\ UNCHANGED err_vars

RiskNext ==
    \/ \E v \in DayMetrics : UpdateDayPnl(v)
    \/ \E fg \in LedgerStates, t \in 0..(max_trades_per_day + 1), f \in 1..NumLedgerFigis :
            AllowNewTrade(fg, t, f)
    \/ Done

SpecRisk == Init /\ [][RiskNext]_vars

(* ------------------------ the retry wrapper alone ---------------------- *)
MaxTries == 3
\* The values retry_tries, retry_sleep_min and retry_sleep_max are configured to.
TriesValues == 0..MaxTries
SleepMins == {1, 2}
SleepMaxs == {2, 3}
\* What the wrapped function does at each attempt, were it made.
AttemptScripts == [1..MaxTries -> {"ok", "err"}]

\* One _call under the configuration (tries, sleep_min, sleep_max): the
\* configuration, the answers and what the call did are kept in last.
CallGateway(tries, sleep_min, sleep_max, script) ==
    /\ Idle
    /\ LET run == _call_with(tries, sleep_min, sleep_max, script)
       IN  last' = [op |-> "_call", figi |-> None, tries |-> tries,
                    sleep_min |-> sleep_min, sleep_max |-> sleep_max, script |-> script,
                    outcome |-> run.outcome, attempts |-> run.attempts, waits |-> run.waits]
    /\ UNCHANGED <<figi, trades_today, current_day, last_cash_rub, locked, day_metric,
                   uid_counter, orders, positions, clock, key_calls, fill_counted,
                   pc, cycle_fills, expired_figis>>
    /\ UNCHANGED cfg_vars
    /\ UNCHANGED err_vars

RetryNext ==
    \/ \E tries \in TriesValues, smin \in SleepMins, smax \in SleepMaxs,
          script \in AttemptScripts : CallGateway(tries, smin, smax, script)
    \/ Done

SpecRetry == Init /\ [][RetryNext]_vars

(* --------------------------- the day rollover -------------------------- *)
\* The day keys the ledger can hold: none yet, or a day up to today.
DayKeys == {None} \cup 0.._today_key

\* _ensure_day_rollover() on a ledger with current_day = day, trades_today =
\* trades and the entries fg: the call and the ledger it leaves are kept in
\* last; the lock of the risk manager is out of its reach.
EnsureDayRollover(day, trades, fg) ==
    /\ Idle
    /\ LET W == _ensure_day_rollover([World EXCEPT !.current_day = day,
                                                   !.trades_today = trades,
                                                   !.figi = fg])
       IN  last' = [op |-> "_ensure_day_rollover", figi |-> None, state |-> fg,
                    pre_day |-> day, pre_trades |-> trades, pre_locked |-> locked,
                    after |-> W.figi, day |-> W.current_day, trades |-> W.trades_today]
    /\ UNCHANGED <<figi, trades_today, current_day, last_cash_rub, locked, day_metric,
                   uid_counter, orders, positions, clock, key_calls, fill_counted,
                   pc, cycle_fills, expired_figis>>
    /\ UNCHANGED cfg_vars
    /\ UNCHANGED err_vars

\* The process sleeps into the next day.
NextDay ==
    /\ Idle
    /\ clock < DayLen
    /\ clock' = clock + DayLen
    /\ UNCHANGED <<figi, trades_today, current_day, last_cash_rub, locked, day_metric,
                   uid_counter, orders, positions, key_calls, fill_counted, last,
                   pc, cycle_fills, expired_figis>>
    /\ UNCHANGED cfg_vars
    /\ UNCHANGED err_vars

(* ------------------------------ strategy.py ---------------------------- *)
\* Configuration of the strategy; the percentages as per-mille and per-cent
\* integers, the time-stop in ticks of the clock.
k_atr == 1
take_profit_pm == 4
stop_loss_pm == 6
min_edge_atr_pct == 5
max_rebound_atr_pct == 25
time_stop_minutes == 1

\* What make_signal computes from the candles: the last close, the VWAP and
\* the ATR (0 while fewer than 15 candles are known); the time of the last
\* candle is now.
ClosePrices == {2, 3}
VwapPrices == {3, 4}
AtrValues == {0, 1}
Candles == [last : ClosePrices, vwap : VwapPrices, atr : AtrValues]

Signal(W, action, limit_price, reason) ==
    [W |-> W, action |-> action, limit_price |-> limit_price, reason |-> reason]

\* make_signal with the take-profit and stop-loss tests ahead of the time-stop.
make_signal_take_first(W0, f, c) ==
    IF c.atr <= 0 THEN Signal(W0, "HOLD", None, "ATR not ready")
    ELSE
    LET W == get(W0, f)
        fs == W.figi[f]
    IN  IF fs.active_order_id # None THEN Signal(W, "HOLD", None, "active_order_wait")
        ELSE IF fs.position_lots > 0
        THEN LET W1 == IF fs.entry_price = None
                       THEN [W EXCEPT !.figi[f].entry_price = c.last,
                                      !.figi[f].entry_time = now]
                       ELSE W
                 entry == W1.figi[f].entry_price
                 entry_time == W1.figi[f].entry_time
             IN  IF /\ c.last * 1000 >= entry * (1000 + take_profit_pm)
                    /\ c.last >= c.vwap
                 THEN Signal(W1, "SELL", c.last, "take_profit")
                 ELSE IF c.last * 1000 <= entry * (1000 - stop_loss_pm)
                 THEN Signal(W1, "SELL", c.last, "stop_loss")
                 ELSE IF entry_time # None /\ now - entry_time >= time_stop_minutes
                 THEN Signal(W1, "SELL", c.last, "time_stop")
                 ELSE Signal(W1, "HOLD", None, "in_position")
        ELSE LET buy_level == c.vwap - k_atr * c.atr
             IN  IF (buy_level - c.last) * 100 < min_edge_atr_pct * c.atr
                 THEN Signal(W, "HOLD", None, "no_edge edge_atr")
                 ELSE IF c.last < buy_level
                 THEN IF (c.last - buy_level) * 100 > max_rebound_atr_pct * c.atr
                      THEN Signal(W, "HOLD", None, "skip_chase")
                      ELSE Signal(W, "BUY", buy_level, "mean_reversion")
                 ELSE Signal(W, "HOLD", None, "no_edge")

\* Strategy.make_signal(figi, candles, state) for the candles c: HOLD while
\* the ATR is not ready or an order works; with a position SELL at the last
\* close on time-stop, take-profit or stop-loss, tested in this order, after
\* entry_price and entry_time have been filled in when entry_price is missing;
\* flat, BUY at buy_level when the last close is deep enough below it.
make_signal_on(W0, f, c) ==
    IF c.atr <= 0 THEN Signal(W0, "HOLD", None, "ATR not ready")
    ELSE
    LET W == get(W0, f)
        fs == W.figi[f]
    IN  IF fs.active_order_id # None THEN Signal(W, "HOLD", None, "active_order_wait")
        ELSE IF fs.position_lots > 0
        THEN LET W1 == IF fs.entry_price = None
                       THEN [W EXCEPT !.figi[f].entry_price = c.last,
                                      !.figi[f].entry_time = now]
                       ELSE W
                 entry == W1.figi[f].entry_price
                 entry_time == W1.figi[f].entry_time
             IN  IF entry_time # None /\ now - entry_time >= time_stop_minutes
                 THEN Signal(W1, "SELL", c.last, "time_stop")
                 ELSE IF /\ c.last * 1000 >= entry * (1000 + take_profit_pm)
                         /\ c.last >= c.vwap
                 THEN Signal(W1, "SELL", c.last, "take_profit")
                 ELSE IF c.last * 1000 <= entry * (1000 - stop_loss_pm)
                 THEN Signal(W1, "SELL", c.last, "stop_loss")
                 ELSE Signal(W1, "HOLD", None, "in_position")
        ELSE LET buy_level == c.vwap - k_atr * c.atr
             IN  IF (buy_level - c.last) * 100 < min_edge_atr_pct * c.atr
                 THEN Signal(W, "HOLD", None, "no_edge edge_atr")
                 ELSE IF c.last < buy_level
                 THEN IF (c.last - buy_level) * 100 > max_rebound_atr_pct * c.atr
                      THEN Signal(W, "HOLD", None, "skip_chase")
                      ELSE Signal(W, "BUY", buy_level, "mean_reversion")
                 ELSE Signal(W, "HOLD", None, "no_edge")

\* make_signal without its check for a working order.
make_signal_over_order(W0, f) ==
    {LET s == make_signal_on([get(W0, f) EXCEPT !.figi[f].active_order_id = None], f, c)
     IN  [s EXCEPT !.W.figi[f].active_order_id = get(W0, f).figi[f].active_order_id] :
     c \in Candles}

\* Strategy.make_signal over the candles the market can show at the moment.
make_signal(W0, f) == {make_signal_on(W0, f, c) : c \in Candles}

\* The ledgers make_signal is handed: no entry for the instrument yet, or an
\* entry flat or long, with or without a working order and entry bookkeeping.
SignalLedgers ==
    {<<>>} \cup
    {(1 :> [FigiState EXCEPT !.active_order_id = a, !.position_lots = l,
                             !.entry_price = e, !.entry_time = t]) :
        a \in {None, 1}, l \in 0..1, e \in {None} \cup ClosePrices,
        t \in {None} \cup StartTicks}

\* make_signal(figi, candles, state) with state.figi = fg: the call, its
\* result and the ledger it leaves are kept in last.
MakeSignal(fg, f, c) ==
    /\ Idle
    /\ LET s == make_signal_on([World EXCEPT !.figi = fg], f, c)
       IN  last' = [op |-> "make_signal", figi |-> f, state |-> fg, candles |-> c,
                    action |-> s.action, limit_price |-> s.limit_price,
                    reason |-> s.reason, after |-> s.W.figi,
                    trades_after |-> s.W.trades_today]
    /\ UNCHANGED <<figi, trades_today, current_day, last_cash_rub, locked, day_metric,
                   uid_counter, orders, positions, clock, key_calls, fill_counted,
                   pc, cycle_fills, expired_figis>>
    /\ UNCHANGED cfg_vars
    /\ UNCHANGED err_vars

SignalNext ==
    \/ \E fg \in SignalLedgers, c \in Candles : MakeSignal(fg, 1, c)
    \/ Done

SpecSignal == Init /\ [][SignalNext]_vars

DayNext ==
    \/ \E day \in DayKeys, trades \in 0..max_trades_per_day, fg \in SignalLedgers :
            EnsureDayRollover(day, trades, fg)
    \/ \E v \in DayMetrics : UpdateDayPnl(v)
    \/ NextDay
    \/ Done

SpecDay == Init /\ [][DayNext]_vars

(* -------------------------------- main.py ------------------------------ *)
\* Broker.expire_stale_orders(account_id, figi, ttl_sec): an order active for
\* longer than the TTL is cancelled and "expired" is returned.  How long the
\* order has been active is an input of the step.
expire_stale_orders(W0, f) ==
    LET W == get(W0, f)
    IN  {[W |-> Return(W, "False"), expired |-> FALSE]} \cup
        (IF W.figi[f].active_order_id # None
         THEN {[W |-> Return(V, "True"), expired |-> TRUE] : V \in cancel_active_order(W, f)}
         ELSE {})

\* Broker.calc_day_cashflow: the day's payments, 0.0 when the query fails.
calc_day_cashflow == DayMetrics \cup {0}

At(at, f) == [at |-> at, f |-> f]

\* "for figi in figis": the next instrument, or the statement after the loop.
Continue(f) ==
    IF \E g \in tradeable_figis : g > f
    THEN At("poll", Min({g \in tradeable_figis : g > f}))
    ELSE At("metric", None)

\* Lines 95-126: the head of the cycle, up to the snapshot refresh.
LoopTop ==
    /\ Idle
    /\ pc.at = "top"
    /\ IF ~is_trading_time \/ flatten_due
       THEN /\ FlattenRoom
            /\ \E W \in flatten_if_needed(World) : Commit("flatten_if_needed", None, W)
            /\ UNCHANGED loop_vars
            /\ UNCHANGED consecutive_errors
            /\ failed_in_a_row' = 0
       ELSE IF locked
       THEN /\ failed_in_a_row' = 0
            /\ UNCHANGED <<figi, trades_today, current_day, last_cash_rub, locked,
                           day_metric, uid_counter, orders, positions, clock,
                           key_calls, fill_counted, last, consecutive_errors>>
            /\ UNCHANGED loop_vars
            /\ UNCHANGED cfg_vars
       ELSE /\ pc' = At("refresh", None)
            /\ cycle_fills' = {i \in 1..Len(orders) :
                                 /\ orders[i].side = "BUY"
                                 /\ orders[i].status = "FILL"
                                 /\ \E f \in DOMAIN figi : figi[f].active_order_id = i}
            /\ expired_figis' = {}
            /\ UNCHANGED <<figi, trades_today, current_day, last_cash_rub, locked,
                           day_metric, uid_counter, orders, positions, clock,
                           key_calls, fill_counted, last>>
            /\ UNCHANGED cfg_vars
            /\ UNCHANGED err_vars

\* Line 126.
LoopRefresh ==
    /\ Idle
    /\ pc.at = "refresh"
    /\ \E W \in refresh_account_snapshot(World, tradeable_figis) :
            Commit("refresh_account_snapshot", None, W)
    /\ pc' = At("poll", Min(tradeable_figis))
    /\ UNCHANGED <<cycle_fills, expired_figis>>
    /\ UNCHANGED err_vars

\* The poll step with a failed order-status query escaping to the handler of
\* the cycle: the for loop is left.
LoopPollRaises ==
    /\ Idle
    /\ pc.at = "poll"
    /\ \E W \in poll_order_updates(World, pc.f) :
            /\ Commit("poll_order_updates", pc.f, W)
            /\ pc' = IF \E i \in 1..Len(W.calls) : W.calls[i].answer = None
                     THEN At("top", None)
                     ELSE At("expire", pc.f)
    /\ UNCHANGED <<cycle_fills, expired_figis>>
    /\ UNCHANGED err_vars

\* Line 130.
LoopPoll ==
    /\ Idle
    /\ pc.at = "poll"
    /\ \E W \in poll_order_updates(World, pc.f) : Commit("poll_order_updates", pc.f, W)
    /\ pc' = At("expire", pc.f)
    /\ UNCHANGED <<cycle_fills, expired_figis>>
    /\ UNCHANGED err_vars

\* The expire step without "if expired: continue".
LoopExpireThenSignal ==
    /\ Idle
    /\ pc.at = "expire"
    /\ \E e \in expire_stale_orders(World, pc.f) :
            /\ Commit("expire_stale_orders", pc.f, e.W)
            /\ pc' = At("signal", pc.f)
            /\ expired_figis' = IF e.expired THEN expired_figis \cup {pc.f}
                                 ELSE expired_figis
    /\ UNCHANGED cycle_fills
    /\ UNCHANGED err_vars

\* Lines 134-137.
LoopExpire ==
    /\ Idle
    /\ pc.at = "expire"
    /\ \E e \in expire_stale_orders(World, pc.f) :
            /\ Commit("expire_stale_orders", pc.f, e.W)
            /\ pc' = IF e.expired THEN Continue(pc.f) ELSE At("signal", pc.f)
            /\ expired_figis' = IF e.expired THEN expired_figis \cup {pc.f}
                                 ELSE expired_figis
    /\ UNCHANGED cycle_fills
    /\ UNCHANGED err_vars

\* Lines 165-173: the SIGNAL record of a BUY or SELL decision, after the cash
\* figures of the log line have been read.
journal_signal(W, f, action) ==
    Write(get_cached_cash_rub(W), Journal("SIGNAL", f, action, "", "signal"))

\* The execution step without the test of entries_allowed.
LoopSignalPastCutoff ==
    /\ Idle
    /\ pc.at = "signal"
    /\ pc' = Continue(pc.f)
    /\ UNCHANGED <<cycle_fills, expired_figis>>
    /\ UNCHANGED err_vars
    /\ \/ Commit("get_last_candles_1m", pc.f, World)
       \/ \E s \in make_signal(World, pc.f) :
            IF s.action = "BUY"
            THEN IF allow_new_trade(locked, s.W.figi, s.W.trades_today, pc.f)
                 THEN /\ CanSubmit
                      /\ \E W \in place_limit_buy(journal_signal(s.W, pc.f, "BUY"),
                                                  pc.f, s.limit_price, 1) :
                            Commit("place_limit_buy", pc.f, W)
                 ELSE Commit("make_signal", pc.f, journal_signal(s.W, pc.f, "BUY"))
            ELSE IF s.action = "SELL"
            THEN /\ CanSubmit
                 /\ \E W \in place_limit_sell_to_close(journal_signal(s.W, pc.f, "SELL"),
                                                       pc.f, s.limit_price) :
                        Commit("place_limit_sell_to_close", pc.f, W)
            ELSE Commit("make_signal", pc.f, s.W)

\* Lines 140-190: candles, signal and execution for one instrument.
LoopSignal ==
    /\ Idle
    /\ pc.at = "signal"
    /\ pc' = Continue(pc.f)
    /\ UNCHANGED <<cycle_fills, expired_figis>>
    /\ UNCHANGED err_vars
    /\ \/ Commit("get_last_candles_1m", pc.f, World)
       \/ \E s \in make_signal(World, pc.f) :
            IF s.action = "BUY"
            THEN IF /\ new_entries_allowed
                    /\ allow_new_trade(locked, s.W.figi, s.W.trades_today, pc.f)
                 THEN /\ CanSubmit
                      /\ \E W \in place_limit_buy(journal_signal(s.W, pc.f, "BUY"),
                                                  pc.f, s.limit_price, 1) :
                            Commit("place_limit_buy", pc.f, W)
                 ELSE Commit("make_signal", pc.f, journal_signal(s.W, pc.f, "BUY"))
            ELSE IF s.action = "SELL"
            THEN /\ CanSubmit
                 /\ \E W \in place_limit_sell_to_close(journal_signal(s.W, pc.f, "SELL"),
                                                       pc.f, s.limit_price) :
                        Commit("place_limit_sell_to_close", pc.f, W)
            ELSE Commit("make_signal", pc.f, s.W)

\* Lines 193-196: the day metric and the lock, then the cycle ends.
LoopMetric ==
    /\ Idle
    /\ pc.at = "metric"
    /\ \E v \in calc_day_cashflow :
            /\ day_metric' = v
            /\ locked' = update_day_pnl(locked, v)
    /\ last' = [NoCall EXCEPT !.op = "update_day_pnl", !.pre_locked = locked]
    /\ pc' = At("top", None)
    /\ UNCHANGED <<figi, trades_today, current_day, last_cash_rub, uid_counter,
                   orders, positions, clock, key_calls, fill_counted, cycle_fills, expired_figis>>
    /\ UNCHANGED cfg_vars
    /\ consecutive_errors' = 0
    /\ failed_in_a_row' = 0

\* time.sleep between two cycles: the clock moves on.
Tick ==
    /\ Idle
    /\ pc.at = "top"
    /\ clock < MaxClock
    /\ clock' = clock + 1
    /\ UNCHANGED <<figi, trades_today, current_day, last_cash_rub, locked, day_metric,
                   uid_counter, orders, positions, key_calls, fill_counted, last,
                   pc, cycle_fills, expired_figis>>
    /\ UNCHANGED cfg_vars
    /\ UNCHANGED err_vars

(* ------------------- main.py: the handlers of the loop ----------------- *)
\* The statements of one iteration, lines 95-197.
InLoop == {"top", "refresh", "poll", "expire", "signal", "metric"}

\* Line 199: Ctrl+C reaches the loop between two calls of an iteration.
KeyboardInterrupt ==
    /\ Idle
    /\ pc.at \in InLoop
    /\ FlattenRoom
    /\ pc' = At("interrupted", None)
    /\ UNCHANGED <<figi, trades_today, current_day, last_cash_rub, locked, day_metric,
                   uid_counter, orders, positions, clock, key_calls, fill_counted, last,
                   cycle_fills, expired_figis>>
    /\ UNCHANGED cfg_vars
    /\ UNCHANGED err_vars

\* The handler without its break: the loop goes on after the flatten.
StopFlattenNoBreak ==
    /\ Idle
    /\ pc.at = "interrupted"
    /\ \E W \in flatten_if_needed(World) \cup {Return(World, "raised")} :
            Commit("flatten_on_stop", None, W)
    /\ pc' = At("top", None)
    /\ UNCHANGED <<cycle_fills, expired_figis>>
    /\ UNCHANGED err_vars

\* Lines 200-206: the flatten of the handler, which may raise, then break.
StopFlatten ==
    /\ Idle
    /\ pc.at = "interrupted"
    /\ \E W \in flatten_if_needed(World) \cup {Return(World, "raised")} :
            Commit("flatten_on_stop", None, W)
    /\ pc' = At("stopped", None)
    /\ UNCHANGED <<cycle_fills, expired_figis>>
    /\ UNCHANGED err_vars

\* Lines 208-221: an exception escapes from the iteration.
LoopError ==
    /\ Idle
    /\ pc.at \in InLoop
    /\ consecutive_errors' = consecutive_errors + 1
    /\ failed_in_a_row' = failed_in_a_row + 1
    /\ pc' = IF consecutive_errors + 1 >= max_consecutive_errors
             THEN At("fatal", None)
             ELSE At("top", None)
    /\ last' = [NoCall EXCEPT !.op = "main_loop_error", !.pre_figi = figi]
    /\ UNCHANGED <<figi, trades_today, current_day, last_cash_rub, locked, day_metric,
                   uid_counter, orders, positions, clock, key_calls, fill_counted,
                   cycle_fills, expired_figis>>
    /\ UNCHANGED cfg_vars

LoopNext ==
    \/ LoopTop
    \/ LoopRefresh
    \/ LoopPoll
    \/ LoopExpire
    \/ LoopSignal
    \/ LoopMetric
    \/ Tick
    \/ Venue
    \/ Done

SpecLoop == Init /\ [][LoopNext]_vars

\* The loop with its two handlers.
MainNext ==
    \/ LoopNext
    \/ KeyboardInterrupt
    \/ StopFlatten
    \/ LoopError

SpecMain == Init /\ [][MainNext]_vars

\* The loop as far as the cycle that places its first order, then asleep
\* while the clock and the venue move on, interrupted by Ctrl+C at any
\* moment; the handler is not kept from running once it was entered.
StopNext ==
    \/ (orders = <<>> \/ pc.at = "metric") /\ LoopNext
    \/ Tick
    \/ Venue
    \/ Done
    \/ KeyboardInterrupt
    \/ StopFlatten

SpecStop == Init /\ [][StopNext]_vars /\ WF_vars(StopFlatten)

\* The main loop over two instruments with room for one position.
InitPortfolio ==
    /\ Start(1..NumPortfolioFigis, PortfolioMaxPositions)
    /\ clock = start_trade

SpecPortfolio == InitPortfolio /\ [][LoopNext]_vars

\* The main loop started on an account that already holds a lot of the
\* instrument.
InitHolding ==
    /\ StartWith(Figis, DefaultMaxPositions, DefaultMaxTrades, 1)
    /\ clock = start_trade

SpecHolding == InitHolding /\ [][LoopNext]_vars

\* The main loop with a limit of one trade per day.
InitTrades ==
    /\ StartWith(Figis, DefaultMaxPositions, TightMaxTrades, 0)
    /\ clock = start_trade

SpecTrades == InitTrades /\ [][LoopNext]_vars

(* ======================= the claims, under Spec ======================== *)

\* C1: for every instrument the venue holds at most one active (unfilled,
\* uncancelled) order placed by the bot, over any sequence of calls and
\* whatever the venue answers.
C1_AtMostOneActiveOrder ==
    \A f \in Figis : Cardinality(ActiveIds(orders, f)) <= 1

\* C2: place_limit_sell_to_close with position_lots > 0 and an active order
\* issues the venue cancel for that order first and then one submit, a SELL
\* for exactly position_lots; with position_lots <= 0 it returns False and
\* makes no venue call.
C2_SellCancelsThenSubmits ==
    last.op = "place_limit_sell_to_close" =>
        IF last.pre.position_lots > 0
        THEN /\ \A i \in 1..Len(last.calls) :
                    last.calls[i].kind = "post_order" =>
                        /\ last.calls[i].side = "SELL"
                        /\ last.calls[i].lots = last.pre.position_lots
                        /\ last.calls[i].lots = figi[last.figi].position_lots
                        /\ \A j \in 1..Len(last.calls) :
                                last.calls[j].kind = "post_order" => j = i
             /\ last.pre.active_order_id # None =>
                    /\ Len(last.calls) >= 2
                    /\ last.calls[1].kind = "cancel_order"
                    /\ last.calls[1].order_id = last.pre.active_order_id
                    /\ last.calls[2].kind = "post_order"
        ELSE last.ret = "False" /\ last.calls = <<>>

C2_Witness ==
    /\ last.op = "place_limit_sell_to_close"
    /\ last.pre.position_lots > 0
    /\ last.pre.active_order_id # None
    /\ last.ret = "True"

\* C3 (invariant I1): an instrument's active_order_id is set if and only if
\* its client_order_uid is set.
C3_OrderIdIffClientUid ==
    \A f \in DOMAIN figi :
        (figi[f].active_order_id # None) <=> (figi[f].client_order_uid # None)

\* C4 (invariant I2): an instrument's entry_price is set if and only if its
\* position_lots > 0.
C4_EntryPriceIffPosition ==
    \A f \in DOMAIN figi :
        (figi[f].entry_price # None) <=> (figi[f].position_lots > 0)

\* C6: trades_today is left unchanged by place_limit_buy,
\* place_limit_sell_to_close and cancel_active_order, and by a poll whose
\* order is not a filled BUY; a poll that observes the FILL of a BUY raises
\* it by exactly 1.
C6_TradesTodayFrame ==
    /\ last.op \in {"place_limit_buy", "place_limit_sell_to_close", "cancel_active_order"}
            => trades_today = last.pre_trades
    /\ last.op = "poll_order_updates" =>
          LET observed == {i \in 1..Len(last.journal) : last.journal[i].event = "FILL"}
              filled_buy ==
                  /\ last.pre.active_order_id # None
                  /\ orders[last.pre.active_order_id].status = "FILL"
                  /\ orders[last.pre.active_order_id].side = "BUY"
          IN  /\ trades_today = last.pre_trades + (IF observed # {} /\ filled_buy THEN 1 ELSE 0)
              /\ observed # {} => orders[last.pre.active_order_id].status = "FILL"

C6_Witness ==
    /\ last.op = "poll_order_updates"
    /\ trades_today = last.pre_trades + 1
    /\ orders[last.pre.active_order_id].side = "BUY"

\* C7: no two submit calls that reach the venue use the same idempotency key,
\* and every attempt _call makes within one call carries the key minted for
\* that call.
C7_KeysUnique ==
    /\ \A k \in DOMAIN key_calls : key_calls[k] <= 1
    /\ \A i \in 1..Len(last.calls) :
            \A a, b \in 1..Len(last.calls[i].keys) :
                last.calls[i].keys[a] = last.calls[i].keys[b]

C7_Witness ==
    /\ key_calls[1] = 1 /\ key_calls[2] = 1
    /\ \E i \in 1..Len(last.calls) : Len(last.calls[i].keys) = retry_tries

(* ===================== the claims, under SpecRisk ====================== *)

\* C8: once the day lock is set it stays set, whatever update_day_pnl is
\* handed later, and every allow_new_trade call made while it is set returns
\* False, for every instrument and ledger.
C8_LockIsSticky ==
    [][/\ locked => locked'
       /\ (last'.op = "allow_new_trade" /\ locked') => last'.ret = "False"]_vars

C8_Witness ==
    /\ locked
    /\ day_metric > -max_day_loss_rub
    /\ last.op = "allow_new_trade"
    /\ last.ret = "False"
    /\ allow_new_trade(FALSE, last.state, last.trades, last.figi)

\* C9: update_day_pnl(value) sets the lock when value <= -max_day_loss_rub
\* (the boundary included) and leaves it as it was when value is above.
C9_LockExactlyAtThreshold ==
    last.op = "update_day_pnl" =>
        /\ day_metric <= -max_day_loss_rub => locked
        /\ day_metric > -max_day_loss_rub => locked = last.pre_locked

C9_Witness ==
    /\ last.op = "update_day_pnl"
    /\ day_metric = -max_day_loss_rub
    /\ locked /\ ~last.pre_locked

\* C10: allow_new_trade returns True if and only if none of the seven denial
\* conditions holds.
C10_AllowIffNoDenial ==
    last.op = "allow_new_trade" =>
        LET fg == last.state
            open_positions == {g \in DOMAIN fg : fg[g].position_lots > 0}
            active_orders == {g \in DOMAIN fg : fg[g].active_order_id # None}
            pending_entries == active_orders \ open_positions
            denied ==
                \/ last.pre_locked
                \/ last.trades >= max_trades_per_day
                \/ last.figi \in open_positions
                \/ (last.figi \in active_orders /\ max_active_orders_per_figi <= 1)
                \/ Cardinality(open_positions) + Cardinality(pending_entries) >= max_positions
                \/ Cardinality(pending_entries) >= max_pending_buys_total
                \/ Cardinality(active_orders) >= max_active_orders_total
        IN  (last.ret = "True") <=> ~denied

C10_Witness ==
    /\ last.op = "allow_new_trade"
    /\ last.ret = "True"
    /\ \E g \in DOMAIN last.state : last.state[g].position_lots > 0

(* ===================== the claims, under SpecLoop ====================== *)

\* C5: every fully filled BUY order the ledger tracks when a cycle of the main
\* loop begins has raised trades_today exactly once by the end of the cycle,
\* or is still tracked so that a later poll can count it; no fill is counted
\* twice.
C5_NoBuyFillLost ==
    /\ \A i \in DOMAIN fill_counted : fill_counted[i] <= 1
    /\ pc.at = "top" =>
          \A i \in cycle_fills :
              \/ fill_counted[i] = 1
              \/ \E f \in DOMAIN figi : figi[f].active_order_id = i

(* ======================== more claims, under Spec ====================== *)

\* C12: place_limit_buy called while the instrument has an active order (of
\* either side) or position_lots > 0 returns False, makes no venue submit
\* call and leaves the instrument's state as it was.
C12_BuyRefusedWhenBusy ==
    (/\ last.op = "place_limit_buy"
     /\ (last.pre.active_order_id # None \/ last.pre.position_lots > 0))
        => /\ last.ret = "False"
           /\ \A i \in 1..Len(last.calls) : last.calls[i].kind # "post_order"
           /\ figi[last.figi] = last.pre

C12_Witness ==
    /\ last.op = "place_limit_buy"
    /\ last.pre.active_order_id # None
    /\ IsActive(orders[last.pre.active_order_id])
    /\ last.ret = "False"

\* C13: place_limit_buy on a flat instrument without an order submits only
\* when the estimated cost price x lots x lot size does not exceed the cash
\* the positions query reported (0 when there is no cash or the query
\* failed); otherwise it is refused before any venue submit, writes one SKIP
\* record with status NO_CASH and leaves the instrument's state as it was.
C13_RefusedWhenCostExceedsCash ==
    (/\ last.op = "place_limit_buy"
     /\ last.pre.active_order_id = None
     /\ last.pre.position_lots = 0)
        => LET posts == {i \in 1..Len(last.calls) : last.calls[i].kind = "post_order"}
               cash == IF last.calls[1].answer = None THEN 0 ELSE last.calls[1].answer
           IN  /\ last.calls[1].kind = "positions"
               /\ \A i \in posts : last.calls[i].price * lot * last.calls[i].lots <= cash
               /\ posts = {} =>
                    /\ last.ret = "False"
                    /\ Cardinality({i \in 1..Len(last.journal) :
                                       /\ last.journal[i].event = "SKIP"
                                       /\ last.journal[i].status = "NO_CASH"}) = 1
                    /\ figi[last.figi] = last.pre

\* C14: after place_limit_buy succeeds the instrument is in
\* ORDER_PENDING(BUY): active_order_id, client_order_uid, order_side = BUY
\* and order_placed_ts are recorded, exactly one SUBMIT record is journaled
\* and trades_today is unchanged; and in every state order_placed_ts is
\* present if and only if an order is active.
C14_BuyRecordsPendingOrder ==
    /\ (last.op = "place_limit_buy" /\ last.ret = "True") =>
          /\ figi[last.figi].active_order_id # None
          /\ figi[last.figi].client_order_uid # None
          /\ figi[last.figi].order_side = "BUY"
          /\ figi[last.figi].order_placed_ts # None
          /\ Cardinality({i \in 1..Len(last.journal) :
                             last.journal[i].event = "SUBMIT"}) = 1
          /\ trades_today = last.pre_trades
    /\ \A f \in DOMAIN figi :
          (figi[f].order_placed_ts # None) <=> (figi[f].active_order_id # None)

\* C15: when the venue submit of place_limit_buy or place_limit_sell_to_close
\* fails with the retries of _call used up, the call returns False, the
\* ledger holds neither the key nor the id of that order, no SUBMIT record is
\* written, and the call makes no other submission and uses no other key.
C15_FailedSubmitRecordsNothing ==
    last.op \in {"place_limit_buy", "place_limit_sell_to_close"} =>
        \A i \in 1..Len(last.calls) :
            (last.calls[i].kind = "post_order" /\ last.calls[i].answer = None) =>
                /\ last.ret = "False"
                /\ Len(last.calls[i].keys) = retry_tries
                /\ \A a \in 1..Len(last.calls[i].keys) :
                        /\ last.calls[i].keys[a] = last.calls[i].keys[1]
                        /\ figi[last.figi].client_order_uid # last.calls[i].keys[a]
                /\ figi[last.figi].active_order_id \notin KeyOrder(orders, last.calls[i].keys[1])
                /\ \A j \in 1..Len(last.journal) : last.journal[j].event # "SUBMIT"
                /\ \A j \in 1..Len(last.calls) : last.calls[j].kind = "post_order" => j = i

C15_Witness ==
    /\ last.op = "place_limit_sell_to_close"
    /\ \E i \in 1..Len(last.calls) :
            /\ last.calls[i].kind = "post_order"
            /\ last.calls[i].answer = None
            /\ KeyOrder(orders, last.calls[i].keys[1]) # {}

\* C16: after cancel_active_order returns for an instrument that had an
\* active order, the ledger holds no active order and no client key for it
\* and one CANCEL record was written, whether the venue's cancel succeeded or
\* failed; with no active order the call makes no venue call, writes no
\* record and changes nothing.
C16_CancelClearsOrder ==
    last.op = "cancel_active_order" =>
        IF last.pre.active_order_id # None
        THEN /\ figi[last.figi].active_order_id = None
             /\ figi[last.figi].client_order_uid = None
             /\ Cardinality({i \in 1..Len(last.journal) :
                                last.journal[i].event = "CANCEL"}) = 1
        ELSE /\ last.calls = <<>>
             /\ last.journal = <<>>
             /\ figi[last.figi] = last.pre

\* C17: when poll_order_updates observes the FILL of the active BUY order
\* with n lots executed, afterwards position_lots = n, entry_price is the
\* reported average price if it was absent, trades_today has grown by 1, the
\* order fields are cleared and exactly one FILL record was journaled.
C17_BuyFillUpdatesLedger ==
    (/\ last.op = "poll_order_updates"
     /\ last.pre.active_order_id # None
     /\ \E i \in 1..Len(last.journal) : last.journal[i].event = "FILL"
     /\ orders[last.pre.active_order_id].side = "BUY")
        => LET o == orders[last.pre.active_order_id]
           IN  /\ figi[last.figi].position_lots = o.exec
               /\ last.pre.entry_price = None => figi[last.figi].entry_price = o.price
               /\ trades_today = last.pre_trades + 1
               /\ figi[last.figi].active_order_id = None
               /\ figi[last.figi].client_order_uid = None
               /\ Cardinality({i \in 1..Len(last.journal) :
                                  last.journal[i].event = "FILL"}) = 1

\* C18 as stated: whenever poll_order_updates observes a partial fill
\* (0 < lots executed < lots requested) it journals a PARTIAL_FILL record and
\* active_order_id and client_order_uid are still set after the poll,
\* whatever status the venue reports with the partial execution.
C18_PartialKeepsOrderAnyStatus ==
    (/\ last.op = "poll_order_updates"
     /\ last.pre.active_order_id # None
     /\ last.calls[1].answer # None
     /\ 0 < last.calls[1].answer
     /\ last.calls[1].answer < orders[last.pre.active_order_id].lots)
        => /\ \E i \in 1..Len(last.journal) : last.journal[i].event = "PARTIAL_FILL"
           /\ figi[last.figi].active_order_id = last.pre.active_order_id
           /\ figi[last.figi].client_order_uid = last.pre.client_order_uid

\* C18, amended: a poll that observes a partial fill journals one PARTIAL_FILL
\* record; the order fields stay as they were when the venue reports the
\* order as still working (PARTIALLYFILL), and are cleared, with a CANCEL
\* record, when it reports the partly executed order as CANCELLED.
C18_PartialKeepsWorkingOrder ==
    (/\ last.op = "poll_order_updates"
     /\ last.pre.active_order_id # None
     /\ last.calls[1].answer # None
     /\ 0 < last.calls[1].answer
     /\ last.calls[1].answer < orders[last.pre.active_order_id].lots)
        => /\ Cardinality({i \in 1..Len(last.journal) :
                              last.journal[i].event = "PARTIAL_FILL"}) = 1
           /\ orders[last.pre.active_order_id].status = "PARTIALLYFILL" =>
                /\ figi[last.figi].active_order_id = last.pre.active_order_id
                /\ figi[last.figi].client_order_uid = last.pre.client_order_uid
           /\ orders[last.pre.active_order_id].status = "CANCELLED" =>
                /\ figi[last.figi].active_order_id = None
                /\ figi[last.figi].client_order_uid = None
                /\ \E i \in 1..Len(last.journal) : last.journal[i].event = "CANCEL"

C18_Witness ==
    /\ last.op = "poll_order_updates"
    /\ last.pre.active_order_id # None
    /\ last.calls[1].answer = 1
    /\ orders[last.pre.active_order_id].lots = 2
    /\ orders[last.pre.active_order_id].status = "PARTIALLYFILL"
    /\ figi[last.figi].active_order_id = last.pre.active_order_id

\* C21: when the positions answer of a snapshot succeeds but does not list
\* an instrument whose ledger entry has position_lots > 0, refresh leaves the
\* entry's position_lots, entry_price and entry_time as they were; when the
\* orders answer succeeds but holds no order for an instrument whose entry
\* has an active order, refresh leaves active_order_id as it was.
C21_OmittedInstrumentUnchanged ==
    last.op = "refresh_account_snapshot" =>
        \A f \in DOMAIN last.pre_figi :
            LET pq == last.calls[1]
                oq == last.calls[Len(last.calls)]
                pre == last.pre_figi[f]
            IN  /\ (pq.answer # None /\ f \notin pq.listed /\ pre.position_lots > 0) =>
                        /\ figi[f].position_lots = pre.position_lots
                        /\ figi[f].entry_price = pre.entry_price
                        /\ figi[f].entry_time = pre.entry_time
                /\ (oq.answer # None /\ f \notin oq.listed /\ pre.active_order_id # None) =>
                        figi[f].active_order_id = pre.active_order_id

\* C22: a failed gateway query changes nothing it would have decided.  After
\* refresh_account_snapshot whose positions query failed, every instrument's
\* position_lots, entry_price and entry_time are as before; after one whose
\* orders query failed, every active_order_id is as before; after
\* poll_order_updates whose order-status query failed, the ledger and
\* trades_today are as before and no journal record was written.
C22_FailedQueryInfersNothing ==
    /\ last.op = "refresh_account_snapshot" =>
            /\ last.calls[1].answer = None =>
                    \A f \in DOMAIN figi :
                        /\ figi[f].position_lots = peek(last.pre_figi, f).position_lots
                        /\ figi[f].entry_price = peek(last.pre_figi, f).entry_price
                        /\ figi[f].entry_time = peek(last.pre_figi, f).entry_time
            /\ last.calls[Len(last.calls)].answer = None =>
                    \A f \in DOMAIN figi :
                        figi[f].active_order_id = peek(last.pre_figi, f).active_order_id
    /\ (/\ last.op = "poll_order_updates"
        /\ \E i \in 1..Len(last.calls) : /\ last.calls[i].kind = "get_order_state"
                                         /\ last.calls[i].answer = None) =>
            /\ figi = last.pre_figi
            /\ trades_today = last.pre_trades
            /\ last.journal = <<>>

\* A snapshot whose two queries failed while the venue held lots and no
\* working order, the ledger no lots and an active order.
C22_Witness ==
    /\ last.op = "refresh_account_snapshot"
    /\ last.calls[1].answer = None
    /\ last.calls[Len(last.calls)].answer = None
    /\ \E f \in DOMAIN figi : /\ positions[f] > figi[f].position_lots
                              /\ figi[f].active_order_id # None
                              /\ ActiveIds(orders, f) = {}

(* ================== more claims, under SpecLoop ======================== *)
\* C19: when the expire step of a cycle finds an order that has been active
\* for longer than the TTL, the step reports expired, writes one CANCEL
\* record, and afterwards the instrument has no active order.
C19_StaleOrderExpires ==
    (last.op = "expire_stale_orders" /\ last.pre.active_order_id # None
                                     /\ last.ret = "True") =>
        /\ figi[last.figi].active_order_id = None
        /\ Cardinality({i \in 1..Len(last.journal) :
                            last.journal[i].event = "CANCEL"}) = 1

\* C20: in a cycle whose expire step reported expired for an instrument, the
\* signal step does not run for that instrument: no SIGNAL record is written
\* and no BUY or SELL is submitted for it during the same cycle.
C20_ExpiredSkipsSignal ==
    /\ pc.at = "signal" => pc.f \notin expired_figis
    /\ last.op \in {"get_last_candles_1m", "make_signal", "place_limit_buy",
                    "place_limit_sell_to_close"} => last.figi \notin expired_figis

\* An expire step has just reported expired and the cycle has moved past the
\* instrument.
C20_Witness ==
    /\ last.op = "expire_stale_orders"
    /\ last.ret = "True"
    /\ last.figi \in expired_figis
    /\ pc = Continue(last.figi)

\* C29: nothing is denied, refused or cleared silently.  A BUY signal that is
\* not submitted (admission denied, entries closed) leaves a record besides
\* the SIGNAL one; a submit method that refuses without calling the venue
\* leaves a record; an instrument whose active_order_id is cleared by a call
\* has a record of that call; and each of these records carries a reason.
C29_NothingHappensSilently ==
    LET reasoned(f) == {i \in 1..Len(last.journal) :
                            /\ last.journal[i].figi = f
                            /\ last.journal[i].event # "SIGNAL"
                            /\ last.journal[i].reason # ""}
        signalled(side) == \E i \in 1..Len(last.journal) :
                                /\ last.journal[i].event = "SIGNAL"
                                /\ last.journal[i].side = side
        posted == \E i \in 1..Len(last.calls) : last.calls[i].kind = "post_order"
    IN  /\ (last.op = "make_signal" /\ signalled("BUY")) => reasoned(last.figi) # {}
        /\ (/\ last.op \in {"place_limit_buy", "place_limit_sell_to_close"}
            /\ last.ret = "False"
            /\ ~posted) => reasoned(last.figi) # {}
        /\ last.op # "" =>
                \A f \in DOMAIN last.pre_figi :
                    (/\ last.pre_figi[f].active_order_id # None
                     /\ figi[f].active_order_id = None) => reasoned(f) # {}

\* C30: when the signal step runs for an instrument with an active order,
\* make_signal answers HOLD whatever the candles and the position: no SIGNAL
\* record is written and no order is submitted.
C30_HoldWhileOrderActive ==
    (/\ last.op \in {"make_signal", "place_limit_buy", "place_limit_sell_to_close"}
     /\ last.pre.active_order_id # None) =>
        /\ last.op = "make_signal"
        /\ \A i \in 1..Len(last.journal) : last.journal[i].event # "SIGNAL"
        /\ \A i \in 1..Len(last.calls) : last.calls[i].kind # "post_order"

\* The signal step has run for an instrument with an active order and a position.
C30_Witness ==
    /\ last.op = "make_signal"
    /\ last.pre.active_order_id # None
    /\ last.pre.position_lots > 0

\* The submissions of the last step, and the decision it journalled.
Posted(side) ==
    {i \in 1..Len(last.calls) :
        last.calls[i].kind = "post_order" /\ last.calls[i].side = side}
Signalled(side) ==
    \E j \in 1..Len(last.journal) :
        last.journal[j].event = "SIGNAL" /\ last.journal[j].side = side

\* C38: in a cycle whose start time is after the new-entry cutoff, or in which
\* allow_new_trade denies, no BUY submission reaches the venue for that
\* instrument, while SELL submissions for open positions are still made
\* regardless of the cutoff and of the risk gate: a BUY is posted only with
\* entries allowed and the gate admitting, and every SELL decision of a cycle
\* is followed by the post of a SELL in the same step.
C38_CutoffAndGateStopOnlyBuys ==
    /\ (last.op = "place_limit_buy" /\ Posted("BUY") # {}) =>
            /\ new_entries_allowed
            /\ allow_new_trade(last.pre_locked, last.pre_figi, last.pre_trades, last.figi)
    /\ (last.op \in {"make_signal", "place_limit_sell_to_close"} /\ Signalled("SELL")) =>
            /\ last.op = "place_limit_sell_to_close"
            /\ Posted("SELL") # {}
            /\ Posted("BUY") = {}

\* A SELL was posted for an open position after the cutoff, with the gate
\* denying entries for the instrument.
C38_Witness ==
    /\ last.op = "place_limit_sell_to_close"
    /\ Signalled("SELL")
    /\ Posted("SELL") # {}
    /\ last.pre.position_lots > 0
    /\ ~new_entries_allowed
    /\ ~allow_new_trade(last.pre_locked, last.pre_figi, last.pre_trades, last.figi)

(* ===================== the claims, under SpecMain ====================== *)
\* C24: after the flatten of the Ctrl+C handler has returned, at whatever
\* time of day the signal came, every order the ledger held as active has
\* received a venue cancel call, and every instrument with position_lots > 0
\* has received a SELL submission unless the last-price query had no answer.
C24_StopFlattensEverything ==
    (last.op = "flatten_on_stop" /\ last.ret # "raised") =>
        \A f \in DOMAIN last.pre_figi :
            LET pre == last.pre_figi[f]
                called(kind) == {i \in 1..Len(last.calls) : last.calls[i].kind = kind}
            IN  /\ pre.active_order_id # None =>
                        \E i \in called("cancel_order") :
                            last.calls[i].order_id = pre.active_order_id
                /\ pre.position_lots > 0 =>
                        \/ \E i \in called("post_order") :
                                /\ last.calls[i].figi = f
                                /\ last.calls[i].side = "SELL"
                        \/ \E i \in called("get_last_prices") :
                                /\ last.calls[i].figi = f
                                /\ last.calls[i].answer = None

\* C26: the loop ends on errors only when as many iterations as the ceiling
\* have failed in a row: an iteration that completes without an exception
\* (a trading cycle, an off-hours or flatten-time iteration, a day-locked
\* one) starts the count again.
C26_StopsOnlyAfterConsecutiveFailures ==
    pc.at = "fatal" => failed_in_a_row >= max_consecutive_errors

\* C27: when the loop ends because the ceiling of consecutive errors is
\* reached, a flatten is attempted before the exit: every order the ledger
\* holds as active gets a venue cancel call, every open position a last-price
\* query.
C27_FlattenBeforeFatalExit ==
    (pc.at = "fatal" /\ last.op = "main_loop_error") =>
        \A f \in DOMAIN last.pre_figi :
            /\ last.pre_figi[f].active_order_id # None =>
                    \E i \in 1..Len(last.calls) :
                        /\ last.calls[i].kind = "cancel_order"
                        /\ last.calls[i].order_id = last.pre_figi[f].active_order_id
            /\ last.pre_figi[f].position_lots > 0 =>
                    \E i \in 1..Len(last.calls) :
                        /\ last.calls[i].kind = "get_last_prices"
                        /\ last.calls[i].figi = f

(* ===================== the claims, under SpecStop ====================== *)
\* C25: once Ctrl+C has reached the loop, the loop ends: the handler's
\* flatten returns or raises, whatever the venue answers, and the loop is left.
C25_StopTerminates == (pc.at = "interrupted") ~> (pc.at = "stopped")

\* The loop has ended after a due flatten whose venue cancel failed.
C25_Witness ==
    /\ pc.at = "stopped"
    /\ last.op = "flatten_on_stop"
    /\ flatten_due
    /\ \E f \in DOMAIN figi : /\ last.pre_figi[f].active_order_id # None
                              /\ figi[f].active_order_id # None

(* =================== the claims, under SpecPortfolio =================== *)

\* C11: from a flat account whose orders all come from the bot, the number of
\* instruments that hold a position at the venue or have an unfilled BUY order
\* working there never exceeds max_positions.
C11_SlotsWithinMaxPositions ==
    Cardinality({f \in tradeable_figis :
                    \/ positions[f] > 0
                    \/ \E i \in ActiveIds(orders, f) : orders[i].side = "BUY"})
        <= max_positions

C28_FlattenVisitsEveryInstrument ==
    (last.op = "flatten_if_needed" /\ flatten_due) =>
        LET called(kind, f) == {i \in 1..Len(last.calls) :
                                    /\ last.calls[i].kind = kind
                                    /\ last.calls[i].figi = f}
            written(event, f) == {i \in 1..Len(last.journal) :
                                    /\ last.journal[i].event = event
                                    /\ last.journal[i].figi = f}
        IN  /\ \A f \in DOMAIN last.pre_figi :
                LET pre == last.pre_figi[f]
                IN  /\ pre.active_order_id # None =>
                            /\ \E i \in called("cancel_order", f) :
                                    last.calls[i].order_id = pre.active_order_id
                            /\ written("CANCEL", f) # {}
                    /\ pre.position_lots > 0 =>
                            \A i \in called("get_last_prices", f) :
                                last.calls[i].answer # None =>
                                    /\ \E k \in called("post_order", f) :
                                            /\ last.calls[k].side = "SELL"
                                            /\ last.calls[k].lots = pre.position_lots
                                            /\ last.calls[k].price =
                                                    _normalize_price(f, last.calls[i].answer)
                                            /\ last.calls[k].answer # None =>
                                                    \E j \in written("SUBMIT", f) :
                                                        last.journal[j].side = "SELL"
            /\ \A f \in DOMAIN figi :
                    figi[f].active_order_id # None =>
                        orders[figi[f].active_order_id].side # "BUY"

(* ===================== the claims, under SpecSignal ==================== *)

\* The exit tests of make_signal, against the entry bookkeeping e.
TimeStopHolds(e) == e.entry_time # None /\ now - e.entry_time >= time_stop_minutes
TakeProfitHolds(e, c) ==
    c.last * 1000 >= e.entry_price * (1000 + take_profit_pm) /\ c.last >= c.vwap
StopLossHolds(e, c) == c.last * 1000 <= e.entry_price * (1000 - stop_loss_pm)

\* C31: every make_signal result carries a limit_price if and only if its
\* action is BUY or SELL; SELL is returned only when position_lots > 0 and one
\* of time-stop, take-profit or stop-loss holds against entry_price and
\* entry_time, the first of them in this order being the one reported; BUY is
\* returned only when position_lots = 0.
C31_SignalContract ==
    last.op = "make_signal" =>
        LET before == peek(last.state, last.figi)
            e == peek(last.after, last.figi)
            c == last.candles
        IN  /\ (last.limit_price # None) <=> (last.action \in {"BUY", "SELL"})
            /\ last.action \in {"BUY", "SELL", "HOLD"}
            /\ last.action = "SELL" =>
                    /\ before.position_lots > 0
                    /\ e.entry_price # None
                    /\ last.reason =
                          IF TimeStopHolds(e) THEN "time_stop"
                          ELSE IF TakeProfitHolds(e, c) THEN "take_profit"
                          ELSE "stop_loss"
                    /\ TimeStopHolds(e) \/ TakeProfitHolds(e, c) \/ StopLossHolds(e, c)
            /\ last.action = "BUY" => before.position_lots = 0

\* make_signal answered SELL at the last close for a position whose time-stop
\* and take-profit both hold.
C31_Witness ==
    /\ last.op = "make_signal"
    /\ last.action = "SELL"
    /\ last.limit_price = last.candles.last
    /\ TimeStopHolds(peek(last.after, last.figi))
    /\ TakeProfitHolds(peek(last.after, last.figi), last.candles)


\* C37: make_signal and allow_new_trade are read-only with respect to the
\* ledger: neither changes any field of any instrument's state (position,
\* order, entry bookkeeping) nor trades_today, for every input.  Stated for
\* make_signal (allow_new_trade is a predicate of the ledger): after the call
\* every entry holds what it held before, an entry the call created holding
\* the defaults.
C37_SignalLeavesLedger ==
    last.op = "make_signal" =>
        /\ \A f \in DOMAIN last.after : last.after[f] = peek(last.state, f)
        /\ DOMAIN last.state \subseteq DOMAIN last.after
        /\ last.trades_after = trades_today

(* ======================= the claims, under SpecDay ===================== *)

RECURSIVE Doubled(_, _)
Doubled(x, n) == IF n = 0 THEN x ELSE 2 * Doubled(x, n - 1)

\* C33: for every configured attempt count, _call invokes the wrapped
\* function at most retry_tries times, returns the result of the first
\* attempt that succeeds, and when no attempt succeeds propagates a failure
\* (it never returns normally without a successful attempt); the wait before
\* the next attempt starts at retry_sleep_min and doubles each time, capped at
\* retry_sleep_max.
C33_CallContract ==
    last.op = "_call" =>
        LET oks == {i \in 1..last.tries : last.script[i] = "ok"}
        IN  /\ last.attempts <= last.tries
            /\ oks # {} => /\ last.outcome = "returned"
                           /\ last.attempts = Min(oks)
            /\ oks = {} => last.outcome = "raised"
            /\ Len(last.waits) = IF last.attempts > 0 THEN last.attempts - 1 ELSE 0
            /\ \A i \in 1..Len(last.waits) :
                    last.waits[i] = Min({last.sleep_max, Doubled(last.sleep_min, i - 1)})


(* ===================== the claims, under SpecHolding =================== *)

\* C34: over any sequence of loop iterations (trading cycles and repeated
\* flatten iterations after flatten time), the bot never submits a SELL order
\* for an instrument whose actual position at the venue is zero, and the lots
\* of a SELL submission never exceed the lots actually held at the venue.
C34_SellWithinVenuePosition ==
    \A i \in 1..Len(last.calls) :
        (last.calls[i].kind = "post_order" /\ last.calls[i].side = "SELL") =>
            /\ positions[last.calls[i].figi] > 0
            /\ last.calls[i].lots <= positions[last.calls[i].figi]


\* C35: the day lock blocks only new entries: while the day is locked and
\* flatten time has not been reached, the loop keeps refreshing the snapshot,
\* polling active orders and submitting SELL exits for open positions whose
\* take-profit, stop-loss or time-stop triggers.  Stated for the head of an
\* iteration: within trading time and before flatten time, locked or not, the
\* iteration can go on to its snapshot refresh.
C35_LockedLoopKeepsManaging ==
    (Idle /\ pc.at = "top" /\ is_trading_time /\ ~flatten_due) =>
        ENABLED (LoopTop /\ pc'.at = "refresh")


(* ====================== the claims, under SpecTrades =================== *)

\* The BUY orders of the bot the venue has filled.
FilledBuys == {i \in 1..Len(orders) : orders[i].side = "BUY" /\ orders[i].status = "FILL"}

\* C36: within one day key, the number of BUY orders of the bot that get
\* filled at the venue never exceeds max_trades_per_day, over any sequence of
\* cycles.  Stated for the first day of a run.
C36_FilledBuysWithinDayLimit ==
    clock < DayLen => Cardinality(FilledBuys) <= max_trades_per_day


====
